---- MODULE Spec2Model ----
(***************************************************************************)
(* A model of the-numbers: the greedy digit-primitive decomposition, the   *)
(* image concatenation and the composition pass of                         *)
(* compose_missing_numbers.py, the parallel extraction of                  *)
(* extract_all_numbers.py and extract_word.py, the column fill of utils.py *)
(* and build_book.py, and the pagination loops of build_book.py and        *)
(* build_word_book.py.                                                     *)
(*                                                                         *)
(* A Python str of decimal digits is a sequence of digits 0..9; Python's   *)
(* 0-based slice s[a:b] is SubSeq(s, a + 1, b).                            *)
(***************************************************************************)
EXTENDS Integers, Sequences, FiniteSets, TLC

VARIABLES
    \* find_largest_string_decomposition
    target,             \* the target string
    available,          \* the set of available numbers
    components,         \* the local list of components
    pos,                \* the cursor into target
    decomp_pc,          \* "idle", "loop" (in the while loop) or "returned"
    decomp_ret,         \* the returned value
    \* distribute_items_to_columns, distribute_numbers_to_columns
    items_with_heights, \* the list of (item, height, image_path)
    num_columns,
    target_height,
    fill_fn,            \* the function called
    fill_pc,            \* "idle", "call" or "returned"
    fill_ret,           \* what the call returned or raised
    \* main of build_book.py and of build_word_book.py
    book,               \* "numbers" (build_book.py) or "word" (build_word_book.py)
    start,              \* --start
    max_number,         \* --max-number
    numbers_per_page,   \* --numbers-per-page
    images_per_page,    \* --images-per-page
    images,             \* the sorted list of a word's image paths
    scaled_heights,     \* the scaled height of each number's or image's PNG
    missing_png,        \* the numbers whose directory holds no PNG
    current_number,     \* the cursor of build_book.py
    current_idx,        \* the cursor of build_word_book.py
    page_num,
    range_to_page,
    page_pdfs,          \* the pages written so far, in order
    toc_entries,
    main_pc,            \* "idle", "loop", "done" or "raised"
    \* concatenate_images_horizontally
    image_paths,        \* the list of image files to concatenate
    composite,          \* the image returned
    concat_pc,          \* "idle", "call" or "returned"
    \* compose_missing_numbers
    numbers_dir,        \* the directory: subdirectory name -> its PNG files
    compose_max_number, \* the parameter max_number
    compose_available,  \* the local available
    compose_target,     \* the loop variable target
    missing_count,
    composed_count,
    impossible_count,
    stdout,             \* the lines printed so far
    compose_pc,         \* "idle", "start", "loop" or "done"
    \* main of extract_all_numbers.py and of extract_word.py
    extractor,          \* "numbers" (extract_all_numbers.py) or "word" (extract_word.py)
    raw_dir,            \* data/raw: book directory name -> the pages of its hOCR
    existing_files,     \* the output files that exist before the run
    output_files,       \* the output directory: path -> the image in the file
    futures,            \* book directory name -> the state of its task
    results,            \* the list results of main
    total,              \* sum(results)
    extract_pc          \* "idle", "collect" (in the as_completed loop) or "done"

decomp_vars == <<target, available, components, pos, decomp_pc, decomp_ret>>

fill_vars ==
    <<items_with_heights, num_columns, target_height, fill_fn, fill_pc, fill_ret>>

main_vars ==
    <<book, start, max_number, numbers_per_page, images_per_page, images,
      scaled_heights, missing_png, current_number, current_idx, page_num,
      range_to_page, page_pdfs, toc_entries, main_pc>>

concat_vars == <<image_paths, composite, concat_pc>>

compose_vars ==
    <<numbers_dir, compose_max_number, compose_available, compose_target,
      missing_count, composed_count, impossible_count, stdout, compose_pc>>

extract_vars ==
    <<extractor, raw_dir, existing_files, output_files, futures, results, total,
      extract_pc>>

vars ==
    <<decomp_vars, fill_vars, main_vars, concat_vars, compose_vars, extract_vars>>

(***************************************************************************)
(* Bounds of the model.                                                    *)
(***************************************************************************)
MaxTarget == 130

MaxItems == 5

MaxColumns == 3

\* The scaled heights an item may have in a call of the column fill.
HeightPool == {0, 40, 60, 150}

\* The target heights of a call of the column fill.
TargetHeightPool == {100, 120}

\* max_number is at most start + MaxSpan; the word book has at most
\* MaxSpan + 1 images.
MaxSpan == 5

MaxPerPage == 2

\* The loop of a run that places nothing is cut after MaxPages pages.
MaxPages == 8

\* A call of the concatenation has at most MaxImages images.
MaxImages == 3

\* The widths and the heights of the PNG files of the model.
ImageWidthPool == {1, 5, 13}

ImageHeightPool == {3, 4, 27}

\* compose_missing_numbers runs with max_number = MaxCompose on any directory
\* of the model, and with max_number = LongCompose on the directory that
\* holds one glyph of the digit 1.
MaxCompose == 22

LongCompose == 111

StartPool == {1, 998}

\* --numbers-per-page: small values, and the default of build_book.py.
PerPagePool == (0 .. MaxPerPage) \cup {200}

\* The scaled heights of the PNGs of the numbers, and of a word's images.
NumberHeightPool == {300, 700}

WordHeightPool == {390, 800}

(***************************************************************************)
(* Program constants.                                                      *)
(***************************************************************************)
GRID_COLUMNS == 5

COLUMN_TARGET_HEIGHT_PX == 640

word_GRID_COLUMNS == 5

word_COLUMN_TARGET_HEIGHT_PX == 790

\* The size of a block of the table of contents.
RangeSize == 1000

\* The numbers a glyph directory may exist for in the model.
AvailablePool == {0, 1, 2, 3, 12, 23, 45, 123}

\* The targets: every number up to MaxTarget, and the docstring's example.
TargetPool == (1 .. MaxTarget) \cup {12345}

(***************************************************************************)
(* Python values.                                                          *)
(***************************************************************************)
None == [tag |-> "None"]

List(v) == [tag |-> "list", val |-> v]

Pending == [tag |-> "pending"]

\* str(n) of a non-negative int: its canonical decimal digits.
RECURSIVE str(_)
str(n) == IF n < 10 THEN <<n>> ELSE str(n \div 10) \o <<n % 10>>

\* target[pos:end]
Slice(s, a, b) == SubSeq(s, a + 1, b)

(***************************************************************************)
(* find_largest_string_decomposition                                       *)
(***************************************************************************)
\* A bug: a number is also found under its string with a leading zero.
available_strs_ZeroPadded(avail) ==
    [s \in {str(n) : n \in avail} \cup {<<0>> \o str(n) : n \in avail} |->
        CHOOSE n \in avail : str(n) = s \/ <<0>> \o str(n) = s]

\* available_strs = {str(n): n for n in available}, a dict from strings to ints.
available_strs(avail) ==
    [s \in {str(n) : n \in avail} |-> CHOOSE n \in avail : str(n) = s]

\* The ends of range(len(target), pos, -1) whose chunk is in available_strs.
MatchingEnds(t, p, avail) ==
    {e \in (p + 1) .. Len(t) : Slice(t, p, e) \in DOMAIN available_strs(avail)}

\* A bug: the scan runs from the shortest prefix up.
MatchEnd_Shortest(t, p, avail) ==
    CHOOSE e \in MatchingEnds(t, p, avail) :
        \A f \in MatchingEnds(t, p, avail) : f >= e

\* The end at which the for loop breaks: the first match scanning from
\* len(target) down, so the largest matching end.
MatchEnd(t, p, avail) ==
    CHOOSE e \in MatchingEnds(t, p, avail) :
        \A f \in MatchingEnds(t, p, avail) : f <= e

(***************************************************************************)
(* Each specification runs one part of the program; the variables of the   *)
(* other parts stay at these values.                                       *)
(***************************************************************************)
\* No column fill is running.
FillIdle ==
    /\ items_with_heights = <<>>
    /\ num_columns = 0
    /\ target_height = 0
    /\ fill_fn = "none"
    /\ fill_pc = "idle"
    /\ fill_ret = Pending

\* No decomposition is running.
DecompIdle ==
    /\ target = <<>>
    /\ available = {}
    /\ components = <<>>
    /\ pos = 0
    /\ decomp_pc = "idle"
    /\ decomp_ret = Pending

\* Neither main is running.
MainIdle ==
    /\ book = "none"
    /\ start = 0
    /\ max_number = 0
    /\ numbers_per_page = 0
    /\ images_per_page = 0
    /\ images = <<>>
    /\ scaled_heights = <<>>
    /\ missing_png = {}
    /\ current_number = 0
    /\ current_idx = 0
    /\ page_num = 0
    /\ range_to_page = <<>>
    /\ page_pdfs = <<>>
    /\ toc_entries = <<>>
    /\ main_pc = "idle"

\* No concatenation is running.
ConcatIdle ==
    /\ image_paths = <<>>
    /\ composite = Pending
    /\ concat_pc = "idle"

\* No composition pass is running.
ComposeIdle ==
    /\ numbers_dir = <<>>
    /\ compose_max_number = 0
    /\ compose_available = {}
    /\ compose_target = 0
    /\ missing_count = 0
    /\ composed_count = 0
    /\ impossible_count = 0
    /\ stdout = <<>>
    /\ compose_pc = "idle"

\* No extraction is running.
ExtractIdle ==
    /\ extractor = "none"
    /\ raw_dir = <<>>
    /\ existing_files = <<>>
    /\ output_files = <<>>
    /\ futures = <<>>
    /\ results = <<>>
    /\ total = 0
    /\ extract_pc = "idle"

(***************************************************************************)
(* find_largest_string_decomposition, one loop iteration a step.           *)
(***************************************************************************)
DecompUnchanged ==
    UNCHANGED <<target, available, fill_vars, main_vars, concat_vars, compose_vars,
                extract_vars>>

\* A bug: the cursor moves one character on, not to the end of the chunk.
DecompMatch_Overlap ==
    /\ decomp_pc = "loop"
    /\ pos < Len(target)
    /\ MatchingEnds(target, pos, available) # {}
    /\ LET end == MatchEnd(target, pos, available)
           chunk == Slice(target, pos, end)
       IN  /\ components' = Append(components, available_strs(available)[chunk])
           /\ pos' = pos + 1
    /\ UNCHANGED <<decomp_pc, decomp_ret>>
    /\ DecompUnchanged

\* One iteration of the while loop in which the for loop breaks on a match.
DecompMatch ==
    /\ decomp_pc = "loop"
    /\ pos < Len(target)
    /\ MatchingEnds(target, pos, available) # {}
    /\ LET end == MatchEnd(target, pos, available)
           chunk == Slice(target, pos, end)
       IN  /\ components' = Append(components, available_strs(available)[chunk])
           /\ pos' = end
    /\ UNCHANGED <<decomp_pc, decomp_ret>>
    /\ DecompUnchanged

\* A bug: the partial list is returned on a dead end.
DecompNoMatch_Partial ==
    /\ decomp_pc = "loop"
    /\ pos < Len(target)
    /\ MatchingEnds(target, pos, available) = {}
    /\ decomp_pc' = "returned"
    /\ decomp_ret' = List(components)
    /\ UNCHANGED <<components, pos>>
    /\ DecompUnchanged

\* One iteration in which the for loop runs out: the else branch returns None.
DecompNoMatch ==
    /\ decomp_pc = "loop"
    /\ pos < Len(target)
    /\ MatchingEnds(target, pos, available) = {}
    /\ decomp_pc' = "returned"
    /\ decomp_ret' = None
    /\ UNCHANGED <<components, pos>>
    /\ DecompUnchanged

\* The while condition fails: return components.
DecompReturn ==
    /\ decomp_pc = "loop"
    /\ ~(pos < Len(target))
    /\ decomp_pc' = "returned"
    /\ decomp_ret' = List(components)
    /\ UNCHANGED <<components, pos>>
    /\ DecompUnchanged

\* A call find_largest_string_decomposition(str(t), available), as
\* compose_missing_numbers makes it, at the entry of the while loop.
DecompInit ==
    /\ FillIdle
    /\ MainIdle
    /\ ConcatIdle
    /\ ComposeIdle
    /\ ExtractIdle
    /\ target \in {str(t) : t \in TargetPool}
    /\ available \in SUBSET AvailablePool
    /\ components = <<>>
    /\ pos = 0
    /\ decomp_pc = "loop"
    /\ decomp_ret = Pending

DecompNext == DecompMatch \/ DecompNoMatch \/ DecompReturn

SpecDecomp == DecompInit /\ [][DecompNext]_vars

(***************************************************************************)
(* Properties of find_largest_string_decomposition.                        *)
(***************************************************************************)
RECURSIVE ConcatStrs(_)
ConcatStrs(cs) == IF cs = <<>> THEN <<>> ELSE str(Head(cs)) \o ConcatStrs(Tail(cs))

\* The offset in the target at which component k of cs starts.
OffsetOf(cs, k) == Len(ConcatStrs(SubSeq(cs, 1, k - 1)))

IsStrOfAvailable(chunk) == \E n \in available : str(n) = chunk

\* Some split of t[p:] into decimal strings of members of avail exists.
RECURSIVE Segmentable(_, _, _)
Segmentable(t, p, avail) ==
    \/ p = Len(t)
    \/ \E e \in (p + 1) .. Len(t) :
          /\ \E n \in avail : str(n) = Slice(t, p, e)
          /\ Segmentable(t, e, avail)

DecompReturned == decomp_pc = "returned"

\* C1: whenever a component list is returned, the decimal strings of its
\* components, concatenated in order, are the target string exactly.
C1_ConcatEqualsTarget ==
    (DecompReturned /\ decomp_ret.tag = "list")
        => ConcatStrs(decomp_ret.val) = target

C1_Witness ==
    /\ DecompReturned
    /\ decomp_ret.tag = "list"
    /\ Len(decomp_ret.val) >= 2
    /\ Len(target) >= 3

\* C2: every component chosen is the longest chunk at its cursor position
\* that is the decimal string of an available number; and {1,2,3,123,45}
\* with target 12345 gives [123, 45].
C2_GreedyLongestMatch ==
    /\ \A k \in 1 .. Len(components) :
          LET p == OffsetOf(components, k)
              e == p + Len(str(components[k]))
          IN  /\ e <= Len(target)
              /\ Slice(target, p, e) = str(components[k])
              /\ components[k] \in available
              /\ \A f \in (e + 1) .. Len(target) :
                    ~IsStrOfAvailable(Slice(target, p, f))
    /\ (DecompReturned /\ target = str(12345) /\ available = {1, 2, 3, 123, 45})
          => decomp_ret = List(<<123, 45>>)

C2_Witness ==
    /\ DecompReturned
    /\ target = str(12345)
    /\ available = {1, 2, 3, 123, 45}
    /\ decomp_ret = List(<<123, 45>>)

\* The cursor is at a position from which no chunk is available.
DeadEnd ==
    /\ pos < Len(target)
    /\ \A e \in (pos + 1) .. Len(target) : ~IsStrOfAvailable(Slice(target, pos, e))

\* C3: a dead end of the scan makes the call return None, whatever was
\* matched before it; no partial list is returned.
C3_DeadEndReturnsNone ==
    (DecompReturned /\ DeadEnd) => decomp_ret = None

C3_Witness ==
    /\ DecompReturned
    /\ DeadEnd
    /\ components # <<>>
    /\ decomp_ret = None

IsPrefix(s, t) == Len(s) <= Len(t) /\ SubSeq(t, 1, Len(s)) = s

\* C4: greedy is incomplete and never backtracks: {1, 12, 23} with target
\* 123 fails though [1, 23] is a split, and no step takes a component back
\* or moves the cursor back.
C4_GreedyIncomplete ==
    /\ []((DecompReturned /\ target = str(123) /\ available = {1, 12, 23})
            => (decomp_ret = None /\ Segmentable(target, 0, available)))
    /\ [][pos' >= pos /\ IsPrefix(components, components')]_vars

C4_Witness ==
    /\ DecompReturned
    /\ decomp_ret = None
    /\ components # <<>>
    /\ Segmentable(target, 0, available)

\* C22: every component is an available number whose decimal string is,
\* character for character, the chunk it consumed; so a chunk that starts
\* with the digit 0 is consumed only as the single character 0, by the
\* available number 0.
C22_CanonicalChunks ==
    \A k \in 1 .. Len(components) :
        LET p == OffsetOf(components, k)
            chunk == Slice(target, p, p + Len(str(components[k])))
        IN  /\ components[k] \in available
            /\ p + Len(str(components[k])) <= Len(target)
            /\ \A i \in 1 .. Len(chunk) : chunk[i] = str(components[k])[i]
            /\ target[p + 1] = 0 => (components[k] = 0 /\ chunk = <<0>>)

\* 102 over {0, 1, 2}: the 0 in the middle is consumed by the number 0.
C22_Witness ==
    /\ DecompReturned
    /\ target = str(102)
    /\ 0 \in available
    /\ decomp_ret = List(<<1, 0, 2>>)

(***************************************************************************)
(* distribute_items_to_columns (utils.py) and distribute_numbers_to_columns *)
(* (build_book.py): the two functions have the same body, line for line.   *)
(* An entry of the input list is the tuple <<item, height, image_path>>,   *)
(* an entry of a column the tuple <<item, image_path>>; the Python list    *)
(* columns, indexed from 0, is a sequence indexed from 1.                  *)
(***************************************************************************)
Return(cols, used) == [tag |-> "return", columns |-> cols, items_used |-> used]

Raise(exc) == [tag |-> "raise", exc |-> exc]

\* A bug: a single column is allocated, whatever num_columns is.
FillStart_OneColumn(n) ==
    [columns |-> <<<<>>>>,
     current_column_idx |-> 0,
     current_height |-> 0,
     items_used |-> 0,
     status |-> "loop"]

\* The locals before the loop: [[] for _ in range(num_columns)], 0, 0, 0.
FillStart(n) ==
    [columns |-> [c \in 1 .. n |-> <<>>],
     current_column_idx |-> 0,
     current_height |-> 0,
     items_used |-> 0,
     status |-> "loop"]

\* The append and the two increments that end an iteration;
\* columns[current_column_idx] raises IndexError past the end of the list.
FillPlace(st, it, idx, h) ==
    IF idx >= Len(st.columns)
    THEN [st EXCEPT !.status = "IndexError",
                    !.current_column_idx = idx,
                    !.current_height = h]
    ELSE [st EXCEPT !.columns[idx + 1] = Append(@, <<it[1], it[3]>>),
                    !.current_column_idx = idx,
                    !.current_height = h + it[2],
                    !.items_used = @ + 1]

\* A bug: the item that overflows the last column is skipped, not the rest.
FillStep_SkipAndContinue(st, it, n, th) ==
    IF st.status # "loop" THEN st
    ELSE IF st.current_height + it[2] > th
         THEN IF st.current_column_idx >= n - 1
              THEN st
              ELSE FillPlace(st, it, st.current_column_idx + 1, 0)
         ELSE FillPlace(st, it, st.current_column_idx, st.current_height)

\* A bug: the item that overflows the last column is placed all the same.
FillStep_NeverStops(st, it, n, th) ==
    IF st.status # "loop" THEN st
    ELSE IF st.current_height + it[2] > th
         THEN IF st.current_column_idx >= n - 1
              THEN FillPlace(st, it, st.current_column_idx, st.current_height)
              ELSE FillPlace(st, it, st.current_column_idx + 1, 0)
         ELSE FillPlace(st, it, st.current_column_idx, st.current_height)

\* A bug: an item taller than the target height is refused in any column.
FillStep_RejectsOversized(st, it, n, th) ==
    IF st.status # "loop" THEN st
    ELSE IF st.current_height + it[2] > th
         THEN IF st.current_column_idx >= n - 1 \/ it[2] > th
              THEN [st EXCEPT !.status = "break"]
              ELSE FillPlace(st, it, st.current_column_idx + 1, 0)
         ELSE FillPlace(st, it, st.current_column_idx, st.current_height)

\* A bug: the items of a column are kept newest first.
FillStep_Prepends(st, it, n, th) ==
    IF st.status # "loop" THEN st
    ELSE IF st.current_height + it[2] > th /\ st.current_column_idx >= n - 1
         THEN [st EXCEPT !.status = "break"]
         ELSE LET over == st.current_height + it[2] > th
                  idx == IF over THEN st.current_column_idx + 1
                                 ELSE st.current_column_idx
              IN  [st EXCEPT !.columns[idx + 1] = <<<<it[1], it[3]>>>> \o @,
                             !.current_column_idx = idx,
                             !.current_height =
                                 (IF over THEN 0 ELSE @) + it[2],
                             !.items_used = @ + 1]

\* A bug: the loop stops one column early.
FillStep_StopsOneColumnEarly(st, it, n, th) ==
    IF st.status # "loop" THEN st
    ELSE IF st.current_height + it[2] > th
         THEN IF st.current_column_idx >= n - 2
              THEN [st EXCEPT !.status = "break"]
              ELSE FillPlace(st, it, st.current_column_idx + 1, 0)
         ELSE FillPlace(st, it, st.current_column_idx, st.current_height)

\* A bug: a column that an item would fill exactly is left for the next.
FillStep_MovesWhenFull(st, it, n, th) ==
    IF st.status # "loop" THEN st
    ELSE IF st.current_height + it[2] >= th
         THEN IF st.current_column_idx >= n - 1
              THEN [st EXCEPT !.status = "break"]
              ELSE FillPlace(st, it, st.current_column_idx + 1, 0)
         ELSE FillPlace(st, it, st.current_column_idx, st.current_height)

\* One iteration of the for loop on the entry it = (item, height, image_path).
FillStep(st, it, n, th) ==
    IF st.status # "loop" THEN st
    ELSE IF st.current_height + it[2] > th
         THEN IF st.current_column_idx >= n - 1
              THEN [st EXCEPT !.status = "break"]
              ELSE FillPlace(st, it, st.current_column_idx + 1, 0)
         ELSE FillPlace(st, it, st.current_column_idx, st.current_height)

\* The for loop from entry i on.
RECURSIVE FillLoop(_, _, _, _, _)
FillLoop(st, items, i, n, th) ==
    IF i > Len(items) THEN st
    ELSE FillLoop(FillStep(st, items[i], n, th), items, i + 1, n, th)

\* The call: the loop, then return columns, items_used.
FillCall(items, n, th) ==
    LET st == FillLoop(FillStart(n), items, 1, n, th)
    IN  IF st.status = "IndexError" THEN Raise("IndexError")
        ELSE Return(st.columns, st.items_used)

distribute_items_to_columns(items, n, th) == FillCall(items, n, th)

distribute_numbers_to_columns(numbers, n, th) == FillCall(numbers, n, th)

\* The image path of an item.
ImagePath(item) == <<"png", item>>

\* The input list whose entries have the heights hs; entry i is item i.
ItemsOf(hs) == [i \in 1 .. Len(hs) |-> <<i, hs[i], ImagePath(i)>>]

FillUnchanged ==
    UNCHANGED <<decomp_vars, main_vars, concat_vars, compose_vars, extract_vars,
                items_with_heights, num_columns, target_height, fill_fn>>

\* A call of utils.distribute_items_to_columns runs to its end.
CallDistributeItems ==
    /\ fill_pc = "call"
    /\ fill_fn = "distribute_items_to_columns"
    /\ fill_ret' =
           distribute_items_to_columns(items_with_heights, num_columns, target_height)
    /\ fill_pc' = "returned"
    /\ FillUnchanged

\* A call of build_book.distribute_numbers_to_columns runs to its end.
CallDistributeNumbers ==
    /\ fill_pc = "call"
    /\ fill_fn = "distribute_numbers_to_columns"
    /\ fill_ret' =
           distribute_numbers_to_columns(items_with_heights, num_columns, target_height)
    /\ fill_pc' = "returned"
    /\ FillUnchanged

\* A call of either function; num_columns is any int from 0 up.
FillInit ==
    /\ DecompIdle
    /\ MainIdle
    /\ ConcatIdle
    /\ ComposeIdle
    /\ ExtractIdle
    /\ items_with_heights \in
           {ItemsOf(hs) : hs \in UNION {[1 .. k -> HeightPool] : k \in 0 .. MaxItems}}
    /\ num_columns \in 0 .. MaxColumns
    /\ target_height \in TargetHeightPool
    /\ fill_fn \in {"distribute_items_to_columns", "distribute_numbers_to_columns"}
    /\ fill_pc = "call"
    /\ fill_ret = Pending

FillNext == CallDistributeItems \/ CallDistributeNumbers

SpecFill == FillInit /\ [][FillNext]_vars

(***************************************************************************)
(* Properties of the column fill.                                          *)
(***************************************************************************)
RECURSIVE Flatten(_)
Flatten(cols) == IF cols = <<>> THEN <<>> ELSE Head(cols) \o Flatten(Tail(cols))

\* The height the input list gives the item of a column entry.
HeightOfEntry(items, entry) ==
    LET i == CHOOSE i \in 1 .. Len(items) : items[i][1] = entry[1] IN items[i][2]

RECURSIVE ColumnHeight(_, _)
ColumnHeight(items, col) ==
    IF col = <<>> THEN 0
    ELSE HeightOfEntry(items, Head(col)) + ColumnHeight(items, Tail(col))

\* The column entry the input entry it becomes.
EntryOf(it) == <<it[1], it[3]>>

\* The 0-based index of the column that holds the entry of items[i].
ColumnIdxOf(cols, items, i) ==
    (CHOOSE c \in 1 .. Len(cols) :
        \E k \in 1 .. Len(cols[c]) : cols[c][k] = EntryOf(items[i])) - 1

FillReturned == fill_pc = "returned"

FillReturnedColumns == FillReturned /\ num_columns >= 1

\* C5: with num_columns >= 1 the columns, read in column order and top to
\* bottom, are exactly the first items_used entries of the input, in input
\* order, and items_used <= len(items).
C5_PlacedIsPrefix ==
    FillReturnedColumns =>
        /\ fill_ret.tag = "return"
        /\ fill_ret.items_used \in 0 .. Len(items_with_heights)
        /\ Flatten(fill_ret.columns) =
               [i \in 1 .. fill_ret.items_used |-> EntryOf(items_with_heights[i])]

C5_Witness ==
    /\ FillReturnedColumns
    /\ fill_ret.tag = "return"
    /\ fill_ret.items_used >= 3
    /\ fill_ret.items_used < Len(items_with_heights)
    /\ Cardinality({c \in 1 .. num_columns : fill_ret.columns[c] # <<>>}) >= 2

\* C6: every returned column's accumulated height is at most target_height,
\* except a column of exactly one item that is itself taller.
C6_ColumnHeightBound ==
    FillReturnedColumns =>
        \A c \in 1 .. Len(fill_ret.columns) :
            LET col == fill_ret.columns[c] IN
            \/ ColumnHeight(items_with_heights, col) <= target_height
            \/ /\ Len(col) = 1
               /\ HeightOfEntry(items_with_heights, col[1]) > target_height

C6_Witness ==
    /\ FillReturnedColumns
    /\ \E c \in 1 .. Len(fill_ret.columns) :
          ColumnHeight(items_with_heights, fill_ret.columns[c]) > target_height
    /\ \E c \in 1 .. Len(fill_ret.columns) :
          /\ Len(fill_ret.columns[c]) >= 2
          /\ ColumnHeight(items_with_heights, fill_ret.columns[c]) = target_height
    /\ fill_ret.items_used < Len(items_with_heights)

\* The call fill(items=[(a,150)], numColumns=2, targetHeight=100) has returned.
C7_ExampleReturned ==
    /\ FillReturned
    /\ items_with_heights = ItemsOf(<<150>>)
    /\ num_columns = 2
    /\ target_height = 100

\* C7 as stated: the example returns columns=[[a],[]] and used=1.
C7_AsStated ==
    C7_ExampleReturned =>
        fill_ret = Return(<< <<EntryOf(items_with_heights[1])>>, <<>> >>, 1)

\* C7, amended: an item taller than target_height that is met while the
\* current column is not the last is still placed, alone at the top of the
\* next column; the example returns columns=[[],[a]] and used=1.
C7_OversizedPlacedInNextColumn ==
    /\ C7_ExampleReturned =>
          fill_ret = Return(<< <<>>, <<EntryOf(items_with_heights[1])>> >>, 1)
    /\ FillReturnedColumns =>
          \A i \in 1 .. Len(items_with_heights) :
              LET cur == IF i = 1 THEN 0
                         ELSE ColumnIdxOf(fill_ret.columns, items_with_heights, i - 1)
              IN  (/\ items_with_heights[i][2] > target_height
                   /\ fill_ret.items_used >= i - 1
                   /\ cur < num_columns - 1)
                  => /\ fill_ret.items_used >= i
                     /\ fill_ret.columns[cur + 2][1] = EntryOf(items_with_heights[i])

C7_Witness ==
    /\ C7_ExampleReturned
    /\ fill_ret.tag = "return"
    /\ fill_ret.items_used = 1
    /\ fill_ret.columns[2] # <<>>

\* C8: when the call stops short, the next item would have pushed the last
\* column above target_height, and neither it nor any later item is in a
\* column; heights [40,40,40,40,40] with 2 columns of 100 give
\* [[1,2],[3,4]] and used = 4.
C8_StopsAtLastColumn ==
    /\ (FillReturnedColumns /\ fill_ret.items_used < Len(items_with_heights)) =>
          /\ ColumnHeight(items_with_heights, fill_ret.columns[num_columns])
                 + items_with_heights[fill_ret.items_used + 1][2] > target_height
          /\ \A j \in (fill_ret.items_used + 1) .. Len(items_with_heights) :
                \A c \in 1 .. num_columns :
                    \A k \in 1 .. Len(fill_ret.columns[c]) :
                        fill_ret.columns[c][k] # EntryOf(items_with_heights[j])
    /\ (/\ FillReturned
        /\ items_with_heights = ItemsOf(<<40, 40, 40, 40, 40>>)
        /\ num_columns = 2
        /\ target_height = 100) =>
          fill_ret = Return(<< <<EntryOf(items_with_heights[1]),
                                 EntryOf(items_with_heights[2])>>,
                               <<EntryOf(items_with_heights[3]),
                                 EntryOf(items_with_heights[4])>> >>, 4)

\* The call stopped though a later item still fits in the last column.
C8_Witness ==
    /\ FillReturnedColumns
    /\ fill_ret.items_used >= 1
    /\ \E j \in (fill_ret.items_used + 2) .. Len(items_with_heights) :
          ColumnHeight(items_with_heights, fill_ret.columns[num_columns])
              + items_with_heights[j][2] <= target_height

\* C9: with num_columns >= 1 exactly num_columns columns are returned, and
\* for an empty input all of them are empty and items_used = 0.
C9_ColumnCount ==
    FillReturnedColumns =>
        /\ fill_ret.tag = "return"
        /\ Len(fill_ret.columns) = num_columns
        /\ items_with_heights = <<>> =>
              /\ \A c \in 1 .. num_columns : fill_ret.columns[c] = <<>>
              /\ fill_ret.items_used = 0

C9_Witness ==
    /\ FillReturnedColumns
    /\ items_with_heights = <<>>
    /\ num_columns >= 2
    /\ fill_ret = Return([c \in 1 .. num_columns |-> <<>>], 0)

\* C19: a call with num_columns < 1 never returns a (columns, items_used)
\* result: whatever the items, it ends with an error raised to the caller.
C19_AsStated ==
    (FillReturned /\ num_columns < 1) => fill_ret.tag = "raise"

\* C23: with num_columns >= 2 and a non-empty input the call returns
\* items_used >= 1, the first item at the top of column 0, or of column 1 when
\* it is taller than target_height; a call that returns items_used = 0 for a
\* non-empty input has num_columns <= 1.
C23_FirstItemPlaced ==
    /\ (FillReturned /\ num_columns >= 2 /\ items_with_heights # <<>>) =>
          /\ fill_ret.tag = "return"
          /\ fill_ret.items_used >= 1
          /\ IF items_with_heights[1][2] > target_height
             THEN /\ fill_ret.columns[1] = <<>>
                  /\ fill_ret.columns[2][1] = EntryOf(items_with_heights[1])
             ELSE fill_ret.columns[1][1] = EntryOf(items_with_heights[1])
    /\ (/\ FillReturned
        /\ items_with_heights # <<>>
        /\ fill_ret.tag = "return"
        /\ fill_ret.items_used = 0) => num_columns <= 1

\* Three columns, a first item taller than target_height, and more placed.
C23_Witness ==
    /\ FillReturned
    /\ num_columns = 3
    /\ items_with_heights # <<>>
    /\ items_with_heights[1][2] > target_height
    /\ fill_ret.tag = "return"
    /\ fill_ret.items_used >= 2

\* C24: the first item of a non-empty column k >= 1 did not fit in column
\* k - 1 as that column was returned; the column before a non-empty column
\* k >= 2 is not empty; and column 0 is empty, with items placed, only when
\* the first item is taller than target_height.
C24_NextColumnOnlyOnOverflow ==
    FillReturnedColumns =>
        /\ \A c \in 2 .. Len(fill_ret.columns) :
              fill_ret.columns[c] # <<>> =>
                  /\ ColumnHeight(items_with_heights, fill_ret.columns[c - 1])
                         + HeightOfEntry(items_with_heights, fill_ret.columns[c][1])
                         > target_height
                  /\ c >= 3 => fill_ret.columns[c - 1] # <<>>
        /\ (fill_ret.columns[1] = <<>> /\ fill_ret.items_used >= 1) =>
              items_with_heights[1][2] > target_height

\* Three columns: the first left empty, the second and the third filled.
C24_Witness ==
    /\ FillReturnedColumns
    /\ num_columns = 3
    /\ fill_ret.columns[1] = <<>>
    /\ Len(fill_ret.columns[2]) >= 1
    /\ Len(fill_ret.columns[3]) >= 2

(***************************************************************************)
(* The pagination loops: main of build_book.py and of build_word_book.py.  *)
(* A page's html_content is the record of what the template is given.      *)
(***************************************************************************)
Min(a, b) == IF a <= b THEN a ELSE b

\* list(range(a, b))
PyRange(a, b) == [i \in 1 .. (b - a) |-> a + i - 1]

\* sorted(S) of a finite set of ints.
RECURSIVE Sorted(_)
Sorted(S) ==
    IF S = {} THEN <<>>
    ELSE LET m == CHOOSE x \in S : \A y \in S : x <= y
         IN  <<m>> \o Sorted(S \ {m})

\* build_book.build_page_html: the (html_content, numbers_used, end_number)
\* it returns, or the FileNotFoundError of get_image_for_number.
build_page_html(start_number, max_count, pn) ==
    LET numbers == PyRange(start_number, start_number + max_count)
    IN  IF \E i \in 1 .. Len(numbers) : numbers[i] \in missing_png
        THEN Raise("FileNotFoundError")
        ELSE LET numbers_with_heights ==
                     [i \in 1 .. Len(numbers) |->
                         <<numbers[i], scaled_heights[numbers[i]], ImagePath(numbers[i])>>]
                 r == distribute_numbers_to_columns(
                          numbers_with_heights, GRID_COLUMNS, COLUMN_TARGET_HEIGHT_PX)
             IN  IF r.tag = "raise" THEN r
                 ELSE [tag |-> "return",
                       html_content |->
                           [page_num |-> pn,
                            start_number |-> start_number,
                            end_number |-> start_number + r.items_used - 1,
                            is_recto |-> (pn % 2 = 1),
                            columns |-> r.columns],
                       numbers_used |-> r.items_used,
                       end_number |-> start_number + r.items_used - 1]

\* build_word_book.build_page_html: the (html_content, images_used) it returns.
word_build_page_html(imgs, start_idx, max_count, pn) ==
    LET idxs == PyRange(start_idx, Min(start_idx + max_count, Len(imgs)))
        items == [i \in 1 .. Len(idxs) |->
                     <<idxs[i], scaled_heights[idxs[i]], imgs[idxs[i] + 1]>>]
        r == distribute_items_to_columns(
                 items, word_GRID_COLUMNS, word_COLUMN_TARGET_HEIGHT_PX)
    IN  IF r.tag = "raise" THEN r
        ELSE [tag |-> "return",
              html_content |->
                  [page_num |-> pn,
                   start_number |-> start_idx + 1,
                   end_number |-> start_idx + r.items_used,
                   is_recto |-> (pn % 2 = 1),
                   columns |->
                       [c \in 1 .. Len(r.columns) |->
                           [k \in 1 .. Len(r.columns[c]) |->
                               <<r.columns[c][k][1] + 1, r.columns[c][k][2]>>]]],
              images_used |-> r.items_used]

\* range_to_page after the for loop over range(page_start_range, page_end_range + 1).
RecordRanges(rtp, page_start_range, page_end_range, page) ==
    LET new == {r \in page_start_range .. page_end_range : r \notin DOMAIN rtp}
    IN  [r \in DOMAIN rtp \cup new |-> IF r \in DOMAIN rtp THEN rtp[r] ELSE page]

MainUnchanged ==
    UNCHANGED <<decomp_vars, fill_vars, concat_vars, compose_vars, extract_vars,
                book, start,
                max_number, numbers_per_page, images_per_page, images,
                scaled_heights, missing_png>>

\* A bug: the cursor moves on by the count offered, not the count placed.
NumbersPage_AdvanceByMaxCount ==
    /\ main_pc = "loop"
    /\ book = "numbers"
    /\ current_number <= max_number
    /\ page_num < MaxPages
    /\ LET remaining == max_number - current_number + 1
           max_count == Min(numbers_per_page, remaining)
           r == build_page_html(current_number, max_count, page_num + 1)
       IN  IF r.tag = "raise"
           THEN /\ main_pc' = "raised"
                /\ UNCHANGED <<current_number, page_num, range_to_page, page_pdfs>>
           ELSE /\ range_to_page' =
                       RecordRanges(range_to_page,
                                    (current_number - 1) \div RangeSize,
                                    (r.end_number - 1) \div RangeSize,
                                    page_num + 1)
                /\ page_pdfs' = Append(page_pdfs, r.html_content)
                /\ current_number' = current_number + max_count
                /\ page_num' = page_num + 1
                /\ UNCHANGED main_pc
    /\ UNCHANGED <<current_idx, toc_entries>>
    /\ MainUnchanged

\* One iteration of the while loop of build_book.main.
NumbersPage ==
    /\ main_pc = "loop"
    /\ book = "numbers"
    /\ current_number <= max_number
    /\ page_num < MaxPages
    /\ LET remaining == max_number - current_number + 1
           max_count == Min(numbers_per_page, remaining)
           r == build_page_html(current_number, max_count, page_num + 1)
       IN  IF r.tag = "raise"
           THEN /\ main_pc' = "raised"
                /\ UNCHANGED <<current_number, page_num, range_to_page, page_pdfs>>
           ELSE /\ range_to_page' =
                       RecordRanges(range_to_page,
                                    (current_number - 1) \div RangeSize,
                                    (r.end_number - 1) \div RangeSize,
                                    page_num + 1)
                /\ page_pdfs' = Append(page_pdfs, r.html_content)
                /\ current_number' = current_number + r.numbers_used
                /\ page_num' = page_num + 1
                /\ UNCHANGED main_pc
    /\ UNCHANGED <<current_idx, toc_entries>>
    /\ MainUnchanged

\* A bug: the end of the last range is not cut at max_number.
NumbersFinish_UnclampedEnd ==
    /\ main_pc = "loop"
    /\ book = "numbers"
    /\ ~(current_number <= max_number)
    /\ LET keys == Sorted(DOMAIN range_to_page)
       IN  /\ toc_entries' =
                  [k \in 1 .. Len(keys) |->
                      <<keys[k] * RangeSize + 1,
                        keys[k] * RangeSize + 1 + 999,
                        range_to_page[keys[k]]>>]
           /\ page_num' = IF keys = <<>> THEN page_num
                          ELSE range_to_page[keys[Len(keys)]]
    /\ main_pc' = "done"
    /\ UNCHANGED <<current_number, current_idx, range_to_page, page_pdfs>>
    /\ MainUnchanged

\* The while loop of build_book.main ends: toc_entries is built, and the
\* local page_num is reused for the page of each entry.
NumbersFinish ==
    /\ main_pc = "loop"
    /\ book = "numbers"
    /\ ~(current_number <= max_number)
    /\ LET keys == Sorted(DOMAIN range_to_page)
       IN  /\ toc_entries' =
                  [k \in 1 .. Len(keys) |->
                      <<keys[k] * RangeSize + 1,
                        Min(keys[k] * RangeSize + 1 + 999, max_number),
                        range_to_page[keys[k]]>>]
           /\ page_num' = IF keys = <<>> THEN page_num
                          ELSE range_to_page[keys[Len(keys)]]
    /\ main_pc' = "done"
    /\ UNCHANGED <<current_number, current_idx, range_to_page, page_pdfs>>
    /\ MainUnchanged

\* One iteration of the while loop of build_word_book.main.
WordPage ==
    /\ main_pc = "loop"
    /\ book = "word"
    /\ current_idx < Len(images)
    /\ page_num < MaxPages
    /\ LET remaining == Len(images) - current_idx
           max_count == Min(images_per_page, remaining)
           r == word_build_page_html(images, current_idx, max_count, page_num + 1)
       IN  IF r.tag = "raise"
           THEN /\ main_pc' = "raised"
                /\ UNCHANGED <<current_idx, page_num, page_pdfs>>
           ELSE /\ page_pdfs' = Append(page_pdfs, r.html_content)
                /\ current_idx' = current_idx + r.images_used
                /\ page_num' = page_num + 1
                /\ UNCHANGED main_pc
    /\ UNCHANGED <<current_number, range_to_page, toc_entries>>
    /\ MainUnchanged

\* The while loop of build_word_book.main ends.
WordFinish ==
    /\ main_pc = "loop"
    /\ book = "word"
    /\ ~(current_idx < Len(images))
    /\ main_pc' = "done"
    /\ UNCHANGED <<current_number, current_idx, page_num, range_to_page,
                   page_pdfs, toc_entries>>
    /\ MainUnchanged

\* build_book.main at the entry of its while loop; at most one number of the
\* range has no PNG.
NumbersInit ==
    /\ book = "numbers"
    /\ start \in StartPool
    /\ max_number \in (start - 1) .. (start + MaxSpan)
    /\ numbers_per_page \in PerPagePool
    /\ images_per_page = 0
    /\ images = <<>>
    /\ scaled_heights \in [start .. max_number -> NumberHeightPool]
    /\ missing_png \in {{}} \cup {{n} : n \in start .. max_number}
    /\ current_number = start
    /\ current_idx = 0
    /\ page_num = 0
    /\ range_to_page = <<>>
    /\ page_pdfs = <<>>
    /\ toc_entries = <<>>
    /\ main_pc = "loop"

\* build_word_book.main at the entry of its while loop; get_all_word_images
\* has returned a list, which is never empty.
WordInit ==
    /\ book = "word"
    /\ start = 0
    /\ max_number = 0
    /\ numbers_per_page = 0
    /\ images_per_page \in PerPagePool
    /\ images \in {[i \in 1 .. n |-> ImagePath(i - 1)] : n \in 1 .. (MaxSpan + 1)}
    /\ scaled_heights \in [0 .. (Len(images) - 1) -> WordHeightPool]
    /\ missing_png = {}
    /\ current_number = 0
    /\ current_idx = 0
    /\ page_num = 0
    /\ range_to_page = <<>>
    /\ page_pdfs = <<>>
    /\ toc_entries = <<>>
    /\ main_pc = "loop"

MainInit ==
    /\ DecompIdle
    /\ FillIdle
    /\ ConcatIdle
    /\ ComposeIdle
    /\ ExtractIdle
    /\ NumbersInit \/ WordInit

MainNext == NumbersPage \/ NumbersFinish \/ WordPage \/ WordFinish

SpecMain == MainInit /\ [][MainNext]_vars

(***************************************************************************)
(* Properties of the pagination loops.                                     *)
(***************************************************************************)
\* The numbers a page shows, column after column, top to bottom.
PageItems(page) ==
    LET entries == Flatten(page.columns)
    IN  [k \in 1 .. Len(entries) |-> entries[k][1]]

RECURSIVE AllPlaced(_)
AllPlaced(pages) ==
    IF pages = <<>> THEN <<>>
    ELSE AllPlaced(SubSeq(pages, 1, Len(pages) - 1)) \o PageItems(pages[Len(pages)])

\* The first and the last item of the run, and the item the cursor is at
\* (the word book shows image idx as idx + 1).
FirstItem == IF book = "numbers" THEN start ELSE 1

LastItem == IF book = "numbers" THEN max_number ELSE Len(images)

CursorItem == IF book = "numbers" THEN current_number ELSE current_idx + 1

\* The item after the last one a page placed.
NextAfter(page) == page.start_number + Len(PageItems(page))

\* C10: each page starts at the item after the last one the page before it
\* placed and shows consecutive ascending items, the cursor is at the item
\* after the last page's, pages are numbered 1, 2, ... one by one, and when
\* the run is done every item of the range is on exactly one page.
C10_PaginationContract ==
    /\ \A i \in 1 .. Len(page_pdfs) :
          LET page == page_pdfs[i]
              first == IF i = 1 THEN FirstItem ELSE NextAfter(page_pdfs[i - 1])
          IN  /\ page.page_num = i
              /\ page.start_number = first
              /\ PageItems(page) = PyRange(first, NextAfter(page))
              /\ page.end_number = NextAfter(page) - 1
    /\ CursorItem = IF page_pdfs = <<>> THEN FirstItem
                    ELSE NextAfter(page_pdfs[Len(page_pdfs)])
    /\ main_pc = "loop" => page_num = Len(page_pdfs)
    /\ main_pc = "done" => AllPlaced(page_pdfs) = PyRange(FirstItem, LastItem + 1)

\* A finished run of build_book.py whose pages the column heights cut.
C10_Witness ==
    /\ main_pc = "done"
    /\ book = "numbers"
    /\ numbers_per_page = 200
    /\ Len(page_pdfs) >= 2
    /\ Len(AllPlaced(page_pdfs)) >= 5

\* The last page written placed nothing though items of the range are pending.
EmptyPageWhilePending ==
    /\ page_pdfs # <<>>
    /\ PageItems(page_pdfs[Len(page_pdfs)]) = <<>>
    /\ CursorItem <= LastItem

\* C11: a page step that places nothing while items are pending ends the run
\* with an error; the loop is never left running with the cursor unchanged.
C11_EmptyPageIsFatal ==
    EmptyPageWhilePending => main_pc = "raised"

\* The run is in its loop, every number has a PNG and at least one item is
\* offered per page.
C12_Pre ==
    /\ main_pc = "loop"
    /\ missing_png = {}
    /\ book = "numbers" => numbers_per_page >= 1
    /\ book = "word" => images_per_page >= 1

\* ENABLED MainNext, written out from the guards of the four steps: the loop
\* either runs its body once more or exits.
MainCanStep ==
    /\ main_pc = "loop"
    /\ CursorItem <= LastItem => page_num < MaxPages

\* C12: with at least one item offered per page and a PNG for every number,
\* the run reaches done after finitely many pages with the cursor exactly one
\* past the end of the range: the loop can always take its next step, a page
\* step moves the cursor strictly forward and never past the end plus one (so
\* there are at most as many pages as items), and the only other step ends the
\* run with the cursor at the end plus one.
C12_Terminates ==
    /\ [](C12_Pre => MainCanStep)
    /\ [](C12_Pre => Len(page_pdfs) <= CursorItem - FirstItem)
    /\ [][C12_Pre =>
            \/ /\ main_pc' = "loop"
               /\ Len(page_pdfs') = Len(page_pdfs) + 1
               /\ CursorItem < CursorItem'
               /\ CursorItem' <= LastItem + 1
            \/ /\ main_pc' = "done"
               /\ CursorItem = LastItem + 1
               /\ CursorItem' = CursorItem]_vars

C12_Witness ==
    /\ main_pc = "done"
    /\ book = "numbers"
    /\ numbers_per_page = 200
    /\ Len(page_pdfs) >= 2
    /\ CursorItem = LastItem + 1
    /\ \E i \in 1 .. Len(page_pdfs) : page_pdfs[i].columns[1] = <<>>

\* The block of 1000 a number belongs to: (number - 1) // 1000.
BlockOf(n) == (n - 1) \div RangeSize

\* The pages that show a number of block r.
PagesOfBlock(r) ==
    {i \in 1 .. Len(page_pdfs) :
        \E k \in 1 .. Len(PageItems(page_pdfs[i])) :
            BlockOf(PageItems(page_pdfs[i])[k]) = r}

\* The earliest page that shows a number of block r.
FirstPageOfBlock(r) ==
    page_pdfs[CHOOSE i \in PagesOfBlock(r) : \A j \in PagesOfBlock(r) : i <= j].page_num

\* C13: range_to_page holds exactly the blocks of the numbers placed so far,
\* each with the earliest page that shows one of its numbers, whatever later
\* pages show.
C13_FirstPageWins ==
    book = "numbers" =>
        /\ \A r \in DOMAIN range_to_page :
              /\ PagesOfBlock(r) # {}
              /\ range_to_page[r] = FirstPageOfBlock(r)
        /\ \A i \in 1 .. Len(page_pdfs) :
              \A k \in 1 .. Len(PageItems(page_pdfs[i])) :
                  BlockOf(PageItems(page_pdfs[i])[k]) \in DOMAIN range_to_page

\* The blocks that hold a number of start .. max_number, ascending.
BlocksOfRange == Sorted({BlockOf(n) : n \in start .. max_number})

\* C14: the finished table of contents lists, in ascending order, exactly the
\* blocks that hold a number of start .. max_number, each as
\* (block * 1000 + 1, min(block * 1000 + 1000, max_number), first page).
C14_TocEntries ==
    (main_pc = "done" /\ book = "numbers") =>
        toc_entries =
            [k \in 1 .. Len(BlocksOfRange) |->
                <<BlocksOfRange[k] * 1000 + 1,
                  Min(BlocksOfRange[k] * 1000 + 1000, max_number),
                  FirstPageOfBlock(BlocksOfRange[k])>>]

C14_Witness ==
    /\ main_pc = "done"
    /\ book = "numbers"
    /\ Len(toc_entries) = 2
    /\ toc_entries[2][3] >= 2
    /\ toc_entries[2][2] = max_number

(***************************************************************************)
(* concatenate_images_horizontally                                         *)
(***************************************************************************)
\* A PNG file: its path and the size of the image in it.
ImageFile(path, w, h) == [path |-> path, width |-> w, height |-> h]

\* max(S) of a non-empty set of ints.
MaxOf(S) == CHOOSE m \in S : \A x \in S : x <= m

\* The (width, height, max_height) among the sizes of the model for which the
\* double max_height * (width / height) lies below the exact quotient:
\* 27 * (13 / 3) is 116.99999999999999, not 117.0.
FloatBelowExact == {<<13, 3, 27>>}

\* A bug: the width is rounded to the nearest integer.
NewWidth_Nearest(w, h, max_height) == (2 * max_height * w + h) \div (2 * h)

\* new_width = int(max_height * aspect_ratio), aspect_ratio = width / height
\* a double: the product truncated.
NewWidth(w, h, max_height) ==
    IF <<w, h, max_height>> \in FloatBelowExact
    THEN (max_height * w) \div h - 1
    ELSE (max_height * w) \div h

\* The list resized: an image of another height than max_height is resized
\* to (new_width, max_height), the others are taken as they are.
Resized(paths, max_height) ==
    [i \in 1 .. Len(paths) |->
        IF paths[i].height # max_height
        THEN [image |-> paths[i].path,
              width |-> NewWidth(paths[i].width, paths[i].height, max_height),
              height |-> max_height]
        ELSE [image |-> paths[i].path,
              width |-> paths[i].width,
              height |-> paths[i].height]]

\* sum(img.width for img in imgs)
RECURSIVE SumWidths(_)
SumWidths(imgs) ==
    IF imgs = <<>> THEN 0 ELSE Head(imgs).width + SumWidths(Tail(imgs))

\* The composite returned: its size and what was pasted at which offset.
\* max() of an empty list raises ValueError.
concatenate_images_horizontally(paths) ==
    IF paths = <<>> THEN Raise("ValueError")
    ELSE LET max_height == MaxOf({paths[i].height : i \in 1 .. Len(paths)})
             resized == Resized(paths, max_height)
         IN  [tag |-> "image",
              size |-> <<SumWidths(resized), max_height>>,
              pasted |-> [i \in 1 .. Len(resized) |->
                             [img |-> resized[i],
                              box |-> <<SumWidths(SubSeq(resized, 1, i - 1)), 0>>]]]

\* A call of concatenate_images_horizontally runs to its end.
CallConcatenate ==
    /\ concat_pc = "call"
    /\ composite' = concatenate_images_horizontally(image_paths)
    /\ concat_pc' = "returned"
    /\ UNCHANGED <<decomp_vars, fill_vars, main_vars, compose_vars, extract_vars,
                   image_paths>>

\* A call on any list of up to MaxImages files.
ConcatInit ==
    /\ DecompIdle
    /\ FillIdle
    /\ MainIdle
    /\ ComposeIdle
    /\ ExtractIdle
    /\ image_paths \in
           UNION {[1 .. k -> {ImageFile(<<"src", w, h>>, w, h) :
                                 w \in ImageWidthPool, h \in ImageHeightPool}] :
                  k \in 0 .. MaxImages}
    /\ composite = Pending
    /\ concat_pc = "call"

ConcatNext == CallConcatenate

SpecConcat == ConcatInit /\ [][ConcatNext]_vars

(***************************************************************************)
(* Properties of the concatenation.                                        *)
(***************************************************************************)
ConcatReturned == concat_pc = "returned" /\ image_paths # <<>>

\* The common height: the largest height among the images.
CommonHeight == MaxOf({image_paths[i].height : i \in 1 .. Len(image_paths)})

\* The canvas is (sum of the pasted widths) x H, every pasted image has
\* height H, and the images are pasted in list order, each right after the
\* one before it, the first at the left edge.
CanvasAndOrder ==
    /\ composite.tag = "image"
    /\ Len(composite.pasted) = Len(image_paths)
    /\ composite.size = <<SumWidths([i \in 1 .. Len(image_paths) |->
                                        composite.pasted[i].img]), CommonHeight>>
    /\ \A i \in 1 .. Len(image_paths) :
          /\ composite.pasted[i].img.image = image_paths[i].path
          /\ composite.pasted[i].img.height = CommonHeight
          /\ composite.pasted[i].box[2] = 0
          /\ composite.pasted[i].box[1] =
                 IF i = 1 THEN 0
                 ELSE composite.pasted[i - 1].box[1] + composite.pasted[i - 1].img.width

\* The claim as stated: the width of a resized image is
\* old width * H / old height rounded to the nearest integer.
C20_AsStated ==
    ConcatReturned =>
        /\ CanvasAndOrder
        /\ \A i \in 1 .. Len(image_paths) :
              LET w == image_paths[i].width
                  h == image_paths[i].height
                  nw == composite.pasted[i].img.width
              IN  IF h = CommonHeight THEN nw = w
                  ELSE /\ 2 * nw * h <= 2 * w * CommonHeight + h
                       /\ 2 * nw * h > 2 * w * CommonHeight - h

\* C20: every image is brought to the largest height H; an image of height H
\* keeps its width, and the width of any other is old width * H / old height
\* rounded down, never up (an exact integer quotient may come out one less);
\* the canvas is (sum of the resized widths) x H and the images are pasted
\* left to right in list order.
C20_ResizeTruncates ==
    ConcatReturned =>
        /\ CanvasAndOrder
        /\ \A i \in 1 .. Len(image_paths) :
              LET w == image_paths[i].width
                  h == image_paths[i].height
                  nw == composite.pasted[i].img.width
              IN  IF h = CommonHeight THEN nw = w
                  ELSE /\ nw * h <= w * CommonHeight
                       /\ w * CommonHeight <= (nw + 1) * h
                       /\ (w * CommonHeight) % h # 0 => w * CommonHeight < (nw + 1) * h

\* Three images of three heights: one keeps its width, and one is resized to
\* a width that rounding to nearest would make one larger.
C20_Witness ==
    /\ ConcatReturned
    /\ Len(image_paths) = 3
    /\ \E i \in 1 .. 3 :
          /\ image_paths[i].height = CommonHeight
          /\ composite.pasted[i].img.width = image_paths[i].width
    /\ \E i \in 1 .. 3 :
          /\ image_paths[i].height # CommonHeight
          /\ 2 * ((image_paths[i].width * CommonHeight) % image_paths[i].height)
                 > image_paths[i].height
    /\ composite.pasted[3].box[1] > composite.pasted[2].box[1]

(***************************************************************************)
(* compose_missing_numbers                                                 *)
(*                                                                         *)
(* numbers_dir is a function from the names of its subdirectories to the   *)
(* sets of PNG files in them. A name is a sequence of characters: a digit  *)
(* is 0..9, any other character is OtherChar. A PNG file is a record of    *)
(* its path, the size of its image and, for a composite, the paths of the  *)
(* images pasted into it, left to right.                                   *)
(***************************************************************************)
OtherChar == 10

\* d.name.isdigit()
isdigit(name) == name # <<>> /\ \A i \in 1 .. Len(name) : name[i] \in 0 .. 9

\* int(d.name) of a name of digits.
RECURSIVE int(_)
int(name) ==
    IF name = <<>> THEN 0
    ELSE 10 * int(SubSeq(name, 1, Len(name) - 1)) + name[Len(name)]

\* A glyph extracted from a scan: file number k of directory name.
SourceFile(name, k, w, h) ==
    [path |-> [dir |-> name, stem |-> k, composed |-> FALSE, w |-> w, h |-> h],
     width |-> w, height |-> h, made_of |-> <<>>]

\* f"{target}_composed_w{width}_h{height}.png" in directory name.
ComposedFile(name, t, w, h, pasted) ==
    [path |-> [dir |-> name, stem |-> t, composed |-> TRUE, w |-> w, h |-> h],
     width |-> w, height |-> h, made_of |-> pasted]

\* numbers_dir.glob("*/*_composed*.png")
ComposedFiles(dir) == {f \in UNION {dir[d] : d \in DOMAIN dir} : f.path.composed}

get_available_numbers(dir) ==
    {int(d) : d \in {d \in DOMAIN dir : isdigit(d) /\ dir[d] # {}}}

\* What get_image_for_number(number, numbers_dir) may return: None, or any
\* PNG of the directory str(number) (random.choice).
get_image_for_number(number, dir) ==
    IF str(number) \notin DOMAIN dir THEN {None}
    ELSE IF dir[str(number)] = {} THEN {None}
    ELSE dir[str(number)]

\* find_largest_string_decomposition as a function: the while loop from pos
\* with the components found so far.
RECURSIVE DecompositionFrom(_, _, _, _)
DecompositionFrom(t, p, comps, avail) ==
    IF ~(p < Len(t)) THEN List(comps)
    ELSE IF MatchingEnds(t, p, avail) = {} THEN None
    ELSE LET end == MatchEnd(t, p, avail)
         IN  DecompositionFrom(t, end,
                 Append(comps, available_strs(avail)[Slice(t, p, end)]), avail)

find_largest_string_decomposition(t, avail) == DecompositionFrom(t, 0, <<>>, avail)

\* print(fmt.format(*args))
Line(fmt, args) == [fmt |-> fmt, args |-> args]

ComposeUnchanged ==
    UNCHANGED <<decomp_vars, fill_vars, main_vars, concat_vars, extract_vars,
                compose_max_number>>

\* Lines 107-119: the composed images of earlier passes are removed, the
\* available numbers are read, and the counters start at 0.
ComposeStart ==
    /\ compose_pc = "start"
    /\ LET composed_files == ComposedFiles(numbers_dir)
           cleaned == [d \in DOMAIN numbers_dir |->
                          {f \in numbers_dir[d] : f \notin composed_files}]
           avail == get_available_numbers(cleaned)
       IN  /\ numbers_dir' = cleaned
           /\ compose_available' = avail
           /\ stdout' =
                  (IF composed_files # {}
                   THEN <<Line("Removing {} existing composed images...",
                               <<Cardinality(composed_files)>>)>>
                   ELSE <<>>)
                  \o <<Line("Found {} numbers with source images",
                            <<Cardinality(avail)>>)>>
    /\ missing_count' = 0
    /\ composed_count' = 0
    /\ impossible_count' = 0
    /\ compose_target' = 1
    /\ compose_pc' = "loop"
    /\ ComposeUnchanged

\* The loop iteration of a target that is available: continue.
ComposeSkip ==
    /\ compose_pc = "loop"
    /\ compose_target <= compose_max_number
    /\ compose_target \in compose_available
    /\ compose_target' = compose_target + 1
    /\ UNCHANGED <<numbers_dir, compose_available, missing_count, composed_count,
                   impossible_count, stdout, compose_pc>>
    /\ ComposeUnchanged

\* A bug: a target that cannot be decomposed ends the pass.
ComposeImpossible_Aborts ==
    /\ compose_pc = "loop"
    /\ compose_target <= compose_max_number
    /\ compose_target \notin compose_available
    /\ find_largest_string_decomposition(str(compose_target), compose_available) = None
    /\ missing_count' = missing_count + 1
    /\ impossible_count' = impossible_count + 1
    /\ stdout' =
           IF impossible_count + 1 <= 10
           THEN Append(stdout, Line("Cannot compose {} from available numbers",
                                    <<compose_target>>))
           ELSE stdout
    /\ compose_target' = compose_max_number + 1
    /\ UNCHANGED <<numbers_dir, compose_available, composed_count, compose_pc>>
    /\ ComposeUnchanged

\* The loop iteration of a missing target that has no decomposition.
ComposeImpossible ==
    /\ compose_pc = "loop"
    /\ compose_target <= compose_max_number
    /\ compose_target \notin compose_available
    /\ find_largest_string_decomposition(str(compose_target), compose_available) = None
    /\ missing_count' = missing_count + 1
    /\ impossible_count' = impossible_count + 1
    /\ stdout' =
           IF impossible_count + 1 <= 10
           THEN Append(stdout, Line("Cannot compose {} from available numbers",
                                    <<compose_target>>))
           ELSE stdout
    /\ compose_target' = compose_target + 1
    /\ UNCHANGED <<numbers_dir, compose_available, composed_count, compose_pc>>
    /\ ComposeUnchanged

\* The components of the current target, when it has a decomposition.
CurrentComponents ==
    find_largest_string_decomposition(str(compose_target), compose_available).val

\* The first component for which get_image_for_number returns None.
FirstWithoutImage(comps) ==
    CHOOSE i \in 1 .. Len(comps) :
        /\ get_image_for_number(comps[i], numbers_dir) = {None}
        /\ \A j \in 1 .. (i - 1) : get_image_for_number(comps[j], numbers_dir) # {None}

\* The directory after the composite of image_paths is saved for target t.
SaveComposite(dir, t, paths) ==
    LET img == concatenate_images_horizontally(
                   [i \in 1 .. Len(paths) |->
                       ImageFile(paths[i].path, paths[i].width, paths[i].height)])
        out == ComposedFile(str(t), t, img.size[1], img.size[2],
                            [i \in 1 .. Len(paths) |-> paths[i].path])
        old == IF str(t) \in DOMAIN dir THEN dir[str(t)] ELSE {}
    IN  [d \in DOMAIN dir \cup {str(t)} |->
            IF d = str(t)
            THEN {f \in old : f.path # out.path} \cup {out}
            ELSE dir[d]]

\* A bug: the images found before the missing one are composed and saved.
ComposeFailed_WritesPartial ==
    /\ compose_pc = "loop"
    /\ compose_target <= compose_max_number
    /\ compose_target \notin compose_available
    /\ find_largest_string_decomposition(str(compose_target), compose_available) # None
    /\ \E i \in 1 .. Len(CurrentComponents) :
          get_image_for_number(CurrentComponents[i], numbers_dir) = {None}
    /\ LET k == FirstWithoutImage(CurrentComponents)
       IN  /\ stdout' = Append(stdout, Line("Warning: Expected image for {} but not found",
                                            <<CurrentComponents[k]>>))
           /\ IF k = 1 THEN UNCHANGED numbers_dir
              ELSE \E paths \in [1 .. (k - 1) -> UNION {numbers_dir[d] : d \in DOMAIN numbers_dir}] :
                      /\ \A i \in 1 .. (k - 1) :
                            paths[i] \in get_image_for_number(CurrentComponents[i], numbers_dir)
                      /\ numbers_dir' = SaveComposite(numbers_dir, compose_target, paths)
    /\ missing_count' = missing_count + 1
    /\ composed_count' = composed_count + 1
    /\ compose_target' = compose_target + 1
    /\ UNCHANGED <<compose_available, impossible_count, compose_pc>>
    /\ ComposeUnchanged

\* The loop iteration of a missing target one of whose components has no
\* image: the for loop over the components breaks, its else is not run.
ComposeFailed ==
    /\ compose_pc = "loop"
    /\ compose_target <= compose_max_number
    /\ compose_target \notin compose_available
    /\ find_largest_string_decomposition(str(compose_target), compose_available) # None
    /\ \E i \in 1 .. Len(CurrentComponents) :
          get_image_for_number(CurrentComponents[i], numbers_dir) = {None}
    /\ stdout' = Append(stdout, Line("Warning: Expected image for {} but not found",
                          <<CurrentComponents[FirstWithoutImage(CurrentComponents)]>>))
    /\ missing_count' = missing_count + 1
    /\ compose_target' = compose_target + 1
    /\ UNCHANGED <<numbers_dir, compose_available, composed_count,
                   impossible_count, compose_pc>>
    /\ ComposeUnchanged

\* A bug: a composed target becomes available to the targets after it.
ComposeWrite_AddsToAvailable ==
    /\ compose_pc = "loop"
    /\ compose_target <= compose_max_number
    /\ compose_target \notin compose_available
    /\ find_largest_string_decomposition(str(compose_target), compose_available) # None
    /\ \A i \in 1 .. Len(CurrentComponents) :
          get_image_for_number(CurrentComponents[i], numbers_dir) # {None}
    /\ \E paths \in [1 .. Len(CurrentComponents) ->
                        UNION {numbers_dir[d] : d \in DOMAIN numbers_dir}] :
          /\ \A i \in 1 .. Len(CurrentComponents) :
                paths[i] \in get_image_for_number(CurrentComponents[i], numbers_dir)
          /\ numbers_dir' = SaveComposite(numbers_dir, compose_target, paths)
    /\ missing_count' = missing_count + 1
    /\ composed_count' = composed_count + 1
    /\ stdout' =
           IF (composed_count + 1) % 1000 = 0
           THEN Append(stdout, Line("Composed {} numbers...", <<composed_count + 1>>))
           ELSE stdout
    /\ compose_available' = compose_available \cup {compose_target}
    /\ compose_target' = compose_target + 1
    /\ UNCHANGED <<impossible_count, compose_pc>>
    /\ ComposeUnchanged

\* The loop iteration of a missing target all of whose components have an
\* image: one image per component is picked, the composite is saved.
ComposeWrite ==
    /\ compose_pc = "loop"
    /\ compose_target <= compose_max_number
    /\ compose_target \notin compose_available
    /\ find_largest_string_decomposition(str(compose_target), compose_available) # None
    /\ \A i \in 1 .. Len(CurrentComponents) :
          get_image_for_number(CurrentComponents[i], numbers_dir) # {None}
    /\ \E paths \in [1 .. Len(CurrentComponents) ->
                        UNION {numbers_dir[d] : d \in DOMAIN numbers_dir}] :
          /\ \A i \in 1 .. Len(CurrentComponents) :
                paths[i] \in get_image_for_number(CurrentComponents[i], numbers_dir)
          /\ numbers_dir' = SaveComposite(numbers_dir, compose_target, paths)
    /\ missing_count' = missing_count + 1
    /\ composed_count' = composed_count + 1
    /\ stdout' =
           IF (composed_count + 1) % 1000 = 0
           THEN Append(stdout, Line("Composed {} numbers...", <<composed_count + 1>>))
           ELSE stdout
    /\ compose_target' = compose_target + 1
    /\ UNCHANGED <<compose_available, impossible_count, compose_pc>>
    /\ ComposeUnchanged

\* The loop is over: the summary is printed.
ComposeFinish ==
    /\ compose_pc = "loop"
    /\ ~(compose_target <= compose_max_number)
    /\ stdout' = stdout \o
           <<Line("Summary:", <<>>),
             Line("  Missing numbers: {}", <<missing_count>>),
             Line("  Successfully composed: {}", <<composed_count>>),
             Line("  Impossible to compose: {}", <<impossible_count>>)>>
    /\ compose_pc' = "done"
    /\ UNCHANGED <<numbers_dir, compose_available, compose_target, missing_count,
                   composed_count, impossible_count>>
    /\ ComposeUnchanged

\* The names of the subdirectories of the model: "1", "2", "01", "11" and a
\* name that is not a number.
DirNamePool == {<<1>>, <<2>>, <<0, 1>>, <<1, 1>>, <<OtherChar>>}

\* What a subdirectory may hold before the pass.
ContentPool(name) ==
    IF name = <<1>>
    THEN {{SourceFile(name, 1, 1, 4)},
          {SourceFile(name, 1, 1, 4), SourceFile(name, 2, 5, 3)}}
    ELSE IF name = <<2>>
    THEN {{}, {SourceFile(name, 1, 5, 4)}, {ComposedFile(name, 2, 6, 4, <<>>)}}
    ELSE IF name = <<0, 1>>
    THEN {{SourceFile(name, 1, 13, 3)}}
    ELSE IF name = <<1, 1>>
    THEN {{SourceFile(name, 1, 5, 27)}, {ComposedFile(name, 11, 2, 4, <<>>)}}
    ELSE {{SourceFile(name, 1, 5, 3), ComposedFile(name, 7, 2, 4, <<>>)}}

\* The directories of the model: any of the names, each with any of its
\* contents.
DirPool ==
    {[d \in D |-> c[d]] :
        D \in SUBSET DirNamePool,
        c \in {c \in [DirNamePool -> UNION {ContentPool(n) : n \in DirNamePool}] :
                  \A d \in DirNamePool : c[d] \in ContentPool(d)}}

\* compose_missing_numbers(numbers_dir, max_number) at its entry.
ComposeInit ==
    /\ DecompIdle
    /\ FillIdle
    /\ MainIdle
    /\ ConcatIdle
    /\ ExtractIdle
    /\ \/ /\ numbers_dir \in DirPool
          /\ compose_max_number = MaxCompose
       \/ /\ numbers_dir = [d \in {<<1>>} |-> {SourceFile(d, 1, 1, 4)}]
          /\ compose_max_number = LongCompose
    /\ compose_available = {}
    /\ compose_target = 0
    /\ missing_count = 0
    /\ composed_count = 0
    /\ impossible_count = 0
    /\ stdout = <<>>
    /\ compose_pc = "start"

ComposeNext ==
    \/ ComposeStart
    \/ ComposeSkip
    \/ ComposeImpossible
    \/ ComposeFailed
    \/ ComposeWrite
    \/ ComposeFinish

SpecCompose == ComposeInit /\ [][ComposeNext]_vars

(***************************************************************************)
(* Properties of the composition pass.                                     *)
(***************************************************************************)
\* The targets of the pass that are not available.
MissingTargets == (1 .. compose_max_number) \ compose_available

\* The decomposition of target t over the available numbers of the pass.
DecompositionOf(t) == find_largest_string_decomposition(str(t), compose_available)

\* The iteration at hand is that of a missing target.
AtMissingTarget ==
    /\ compose_pc = "loop"
    /\ compose_target <= compose_max_number
    /\ compose_target \notin compose_available

\* The directory without its composed images.
SourcesOf(dir) == [d \in DOMAIN dir |-> {f \in dir[d] : ~f.path.composed}]

\* The lines printed so far with format fmt.
LinesOf(fmt) == {i \in 1 .. Len(stdout) : stdout[i].fmt = fmt}

\* C15: while the targets are processed the available set stays the one read
\* before the pass from the source images; every composite of the directory
\* is of a target outside that set and is pasted from source images of the
\* greedy decomposition of its target over that set, so never from a
\* composite, and whatever was composed before it.
C15_SnapshotOnly ==
    /\ [][compose_pc = "loop" => compose_available' = compose_available]_vars
    /\ [](compose_pc \in {"loop", "done"} =>
            /\ compose_available = get_available_numbers(SourcesOf(numbers_dir))
            /\ \A f \in ComposedFiles(numbers_dir) :
                  /\ f.path.stem \notin compose_available
                  /\ DecompositionOf(f.path.stem) # None
                  /\ [i \in 1 .. Len(f.made_of) |-> int(f.made_of[i].dir)]
                         = DecompositionOf(f.path.stem).val
                  /\ \A i \in 1 .. Len(f.made_of) :
                        /\ ~f.made_of[i].composed
                        /\ int(f.made_of[i].dir) \in compose_available)

\* 11 was composed from 1 and 1, and 111 after it from 1, 1 and 1.
C15_Witness ==
    /\ compose_pc = "done"
    /\ \E f \in ComposedFiles(numbers_dir) : f.path.stem = 11
    /\ \E f \in ComposedFiles(numbers_dir) :
          /\ f.path.stem = 111
          /\ [i \in 1 .. Len(f.made_of) |-> f.made_of[i].dir] = <<<<1>>, <<1>>, <<1>>>>

\* C16: the iteration of a missing target without decomposition adds one to
\* impossible_count, writes nothing and goes on to the next target; the
\* targets are taken one after the other, and at the end of the pass every
\* missing target was counted and every one without decomposition was counted
\* as impossible.
C16_ImpossibleIsSkipped ==
    /\ [][(AtMissingTarget /\ DecompositionOf(compose_target) = None) =>
            /\ impossible_count' = impossible_count + 1
            /\ missing_count' = missing_count + 1
            /\ numbers_dir' = numbers_dir
            /\ composed_count' = composed_count
            /\ compose_target' = compose_target + 1
            /\ compose_pc' = "loop"]_vars
    /\ [][(compose_pc = "loop" /\ compose_pc' = "loop") =>
            compose_target' = compose_target + 1]_vars
    /\ [](compose_pc = "done" =>
            /\ compose_target = compose_max_number + 1
            /\ missing_count = Cardinality(MissingTargets)
            /\ impossible_count =
                   Cardinality({t \in MissingTargets : DecompositionOf(t) = None}))

\* A pass that found a target impossible and composed a later one.
C16_Witness ==
    /\ compose_pc = "done"
    /\ impossible_count > 10
    /\ \E i \in LinesOf("Cannot compose {} from available numbers") :
          \E f \in ComposedFiles(numbers_dir) : f.path.stem > stdout[i].args[1]

\* A component of the target at hand has no image to be had.
ComponentWithoutImage ==
    /\ AtMissingTarget
    /\ DecompositionOf(compose_target) # None
    /\ \E i \in 1 .. Len(CurrentComponents) :
          get_image_for_number(CurrentComponents[i], numbers_dir) = {None}

\* C17: the iteration of a target one of whose components has no image
\* writes nothing, leaves composed_count as it is and goes on to the next
\* target; at the end of the pass the composites are those of the missing
\* targets all of whose components had an image, one each.
C17_NoPartialComposite ==
    /\ [][ComponentWithoutImage =>
            /\ numbers_dir' = numbers_dir
            /\ composed_count' = composed_count
            /\ compose_target' = compose_target + 1
            /\ compose_pc' = "loop"]_vars
    /\ [](compose_pc = "done" =>
            /\ {f.path.stem : f \in ComposedFiles(numbers_dir)} =
                   {t \in MissingTargets :
                       /\ DecompositionOf(t) # None
                       /\ \A i \in 1 .. Len(DecompositionOf(t).val) :
                             get_image_for_number(DecompositionOf(t).val[i],
                                                  SourcesOf(numbers_dir)) # {None}}
            /\ composed_count = Cardinality(ComposedFiles(numbers_dir)))

\* 21 failed at its second component, after the image of the first was found,
\* and 22 was composed after it.
C17_Witness ==
    /\ compose_pc = "done"
    /\ compose_available = {1, 2}
    /\ <<1>> \notin DOMAIN numbers_dir
    /\ Cardinality(LinesOf("Warning: Expected image for {} but not found")) = 3
    /\ {f.path.stem : f \in ComposedFiles(numbers_dir)} = {22}

\* The sum of the counts that the lines print.
RECURSIVE SumOfCounts(_)
SumOfCounts(lines) ==
    IF lines = <<>> THEN 0 ELSE Head(lines).args[1] + SumOfCounts(Tail(lines))

\* The claim as stated: the report of a failed composition is not that of a
\* failed decomposition and names the target and the missing component, and
\* in the summary the missing targets are the composed, the impossible and
\* the failed ones together.
C18_AsStated ==
    /\ [][ComponentWithoutImage =>
            /\ Len(stdout') = Len(stdout) + 1
            /\ LET line == stdout'[Len(stdout')]
               IN  /\ line.fmt # "Cannot compose {} from available numbers"
                   /\ \E i \in 1 .. Len(line.args) : line.args[i] = compose_target
                   /\ \E i \in 1 .. Len(line.args) :
                         line.args[i] =
                             CurrentComponents[FirstWithoutImage(CurrentComponents)]]_vars
    /\ [](compose_pc = "done" =>
            LET at == CHOOSE i \in LinesOf("Summary:") : TRUE
                categories == SubSeq(stdout, at + 2, Len(stdout))
            IN  /\ stdout[at + 1].fmt = "  Missing numbers: {}"
                /\ stdout[at + 1].args[1] = SumOfCounts(categories))

(***************************************************************************)
(* extract_all_numbers.py and extract_word.py: main submits one task        *)
(* process_book per book directory to a ProcessPoolExecutor and collects   *)
(* the results as the tasks complete. The two programs have the same main   *)
(* and the same task but for the name of an output file.                   *)
(*                                                                         *)
(* A name is a sequence of one-character strings. An hOCR file is the list *)
(* of its pages with the entries that pass the filters of                  *)
(* extract_numbers_from_hocr or extract_word_from_hocr: the image names of *)
(* the pages differ (the pages are the keys of a dict), and so do the      *)
(* numbers of a book (seen_numbers). The lines printed are not modelled.   *)
(***************************************************************************)
\* The characters of str(n).
Digits(n) ==
    [i \in 1 .. Len(str(n)) |->
        <<"0", "1", "2", "3", "4", "5", "6", "7", "8", "9">>[str(n)[i] + 1]]

\* Path(name).stem: the name without its last suffix.
Stem(name) ==
    LET dots == {i \in 2 .. Len(name) : name[i] = "."}
    IN  IF dots = {} THEN name ELSE SubSeq(name, 1, MaxOf(dots) - 1)

\* cropped.size of img.crop((x0, y0, x1, y1))
CropSize(bbox) == <<bbox[3] - bbox[1], bbox[4] - bbox[2]>>

\* extract_all_numbers.py:
\* output_dir / str(number) / f"{number}_{book_name}_{base_name}_w{width}_h{height}.png"
NumberOutputPath(number, book_name, image_name, bbox) ==
    Digits(number) \o <<"/">> \o Digits(number) \o <<"_">> \o book_name \o <<"_">>
        \o Stem(image_name) \o <<"_", "w">> \o Digits(CropSize(bbox)[1])
        \o <<"_", "h">> \o Digits(CropSize(bbox)[2]) \o <<".", "p", "n", "g">>

\* The word extracted by extract_word.py.
target_word == <<"t", "h", "e">>

\* extract_word.py:
\* output_dir / f"{target_word}_{book_name}_{base_name}_{idx}_w{width}_h{height}.png"
WordOutputPath(book_name, image_name, idx, bbox) ==
    target_word \o <<"_">> \o book_name \o <<"_">> \o Stem(image_name) \o <<"_">>
        \o Digits(idx) \o <<"_", "w">> \o Digits(CropSize(bbox)[1])
        \o <<"_", "h">> \o Digits(CropSize(bbox)[2]) \o <<".", "p", "n", "g">>

\* A page of an hOCR file: the name of its image, whether the JP2 exists and
\* can be opened, and its entries (number, bbox); extract_word.py has only
\* the bbox of an entry.
Page(image_name, jp2_exists, jp2_opens, entries) ==
    [image_name |-> image_name, jp2_exists |-> jp2_exists, jp2_opens |-> jp2_opens,
     entries |-> entries]

Entry(number, bbox) == [number |-> number, bbox |-> bbox]

\* output_path of entry j of page p of the book.
OutputPath(kind, book_name, pages, p, j) ==
    IF kind = "numbers"
    THEN NumberOutputPath(pages[p].entries[j].number, book_name,
                          pages[p].image_name, pages[p].entries[j].bbox)
    ELSE WordOutputPath(book_name, pages[p].image_name, j - 1, pages[p].entries[j].bbox)

\* The image saved: the crop of a page of a book.
Cropped(book_name, pages, p, j) ==
    [book |-> book_name, image_name |-> pages[p].image_name,
     bbox |-> pages[p].entries[j].bbox]

\* A task as submitted, and its state after an entry is dealt with.
Submitted ==
    [pc |-> "submitted", p |-> 0, j |-> 0, count |-> 0, skipped |-> 0,
     collected |-> FALSE]

AfterEntry(task, pages) ==
    IF task.j < Len(pages[task.p].entries)
    THEN [task EXCEPT !.pc = "check", !.j = @ + 1]
    ELSE [task EXCEPT !.pc = "page", !.p = @ + 1, !.j = 0]

ExtractUnchanged ==
    UNCHANGED <<decomp_vars, fill_vars, main_vars, concat_vars, compose_vars,
                extractor, raw_dir, existing_files>>

\* A worker process takes the task up: process_book up to the loop over the
\* pages.
TaskStart(b) ==
    /\ extract_pc = "collect"
    /\ futures[b].pc = "submitted"
    /\ futures' = [futures EXCEPT ![b] = [@ EXCEPT !.pc = "page", !.p = 1]]
    /\ UNCHANGED <<output_files, results, total, extract_pc>>
    /\ ExtractUnchanged

\* The head of the loop over the pages: the task returns count after the
\* last page, skips a page whose JP2 does not exist, and raises when
\* Image.open fails.
TaskPage(b) ==
    /\ extract_pc = "collect"
    /\ futures[b].pc = "page"
    /\ LET task == futures[b]
           pages == raw_dir[b]
       IN  futures' = [futures EXCEPT ![b] =
               IF task.p > Len(pages) THEN [task EXCEPT !.pc = "returned"]
               ELSE IF ~pages[task.p].jp2_exists THEN [task EXCEPT !.p = @ + 1]
               ELSE IF ~pages[task.p].jp2_opens THEN [task EXCEPT !.pc = "raised"]
               ELSE [task EXCEPT !.pc = "check", !.j = 1]]
    /\ UNCHANGED <<output_files, results, total, extract_pc>>
    /\ ExtractUnchanged

\* if output_path.exists(): skipped += 1; continue
TaskCheck(b) ==
    /\ extract_pc = "collect"
    /\ futures[b].pc = "check"
    /\ LET task == futures[b]
           pages == raw_dir[b]
           output_path == OutputPath(extractor, b, pages, task.p, task.j)
       IN  futures' = [futures EXCEPT ![b] =
               IF output_path \in DOMAIN output_files
               THEN AfterEntry([task EXCEPT !.skipped = @ + 1], pages)
               ELSE [task EXCEPT !.pc = "save"]]
    /\ UNCHANGED <<output_files, results, total, extract_pc>>
    /\ ExtractUnchanged

\* cropped.save(output_path, "PNG"); count += 1
TaskSave(b) ==
    /\ extract_pc = "collect"
    /\ futures[b].pc = "save"
    /\ LET task == futures[b]
           pages == raw_dir[b]
           output_path == OutputPath(extractor, b, pages, task.p, task.j)
       IN  /\ output_files' =
                  [f \in DOMAIN output_files \cup {output_path} |->
                      IF f = output_path THEN Cropped(b, pages, task.p, task.j)
                      ELSE output_files[f]]
           /\ futures' = [futures EXCEPT ![b] =
                  AfterEntry([task EXCEPT !.count = @ + 1], pages)]
    /\ UNCHANGED <<results, total, extract_pc>>
    /\ ExtractUnchanged

\* One iteration of the loop over as_completed(futures): the result of a
\* task that is over, 0 for one that raised.
MainCollect(b) ==
    /\ extract_pc = "collect"
    /\ futures[b].pc \in {"returned", "raised"}
    /\ ~futures[b].collected
    /\ results' = Append(results, IF futures[b].pc = "returned"
                                  THEN futures[b].count ELSE 0)
    /\ futures' = [futures EXCEPT ![b].collected = TRUE]
    /\ UNCHANGED <<output_files, total, extract_pc>>
    /\ ExtractUnchanged

\* sum(results)
RECURSIVE Sum(_)
Sum(seq) == IF seq = <<>> THEN 0 ELSE Head(seq) + Sum(Tail(seq))

\* The loop is over: total = sum(results).
MainTotal ==
    /\ extract_pc = "collect"
    /\ \A b \in DOMAIN futures : futures[b].collected
    /\ total' = Sum(results)
    /\ extract_pc' = "done"
    /\ UNCHANGED <<output_files, futures, results>>
    /\ ExtractUnchanged

\* The book directories of the model, "a", "a_b" and "c", each with the hOCR
\* files it may hold.
BookPool == {<<"a">>, <<"a", "_", "b">>, <<"c">>}

HocrPool(b) ==
    IF b = <<"a">>
    THEN {<<Page(<<"b", "_", "1", ".", "j", "p", "2">>, TRUE, TRUE,
                 <<Entry(5, <<0, 0, 10, 20>>)>>)>>,
          <<Page(<<"a", "_", "1", ".", "j", "p", "2">>, TRUE, TRUE,
                 <<Entry(5, <<0, 0, 10, 20>>), Entry(7, <<3, 0, 12, 20>>)>>),
            Page(<<"a", "_", "2", ".", "j", "p", "2">>, FALSE, TRUE,
                 <<Entry(8, <<0, 0, 10, 20>>)>>)>>}
    ELSE IF b = <<"a", "_", "b">>
    THEN {<<Page(<<"1", ".", "j", "p", "2">>, TRUE, TRUE,
                 <<Entry(5, <<0, 0, 10, 20>>)>>)>>,
          <<Page(<<"a", "_", "b", "_", "1", ".", "j", "p", "2">>, TRUE, TRUE,
                 <<Entry(5, <<0, 0, 10, 20>>)>>)>>}
    ELSE {<<Page(<<"c", "_", "1", ".", "j", "p", "2">>, TRUE, TRUE,
                 <<Entry(12, <<0, 0, 10, 20>>)>>),
            Page(<<"c", "_", "2", ".", "j", "p", "2">>, TRUE, FALSE,
                 <<Entry(3, <<0, 0, 10, 20>>)>>),
            Page(<<"c", "_", "3", ".", "j", "p", "2">>, TRUE, TRUE,
                 <<Entry(4, <<0, 0, 10, 20>>)>>)>>,
          <<Page(<<"c", "_", "1", ".", "j", "p", "2">>, TRUE, TRUE,
                 <<Entry(12, <<0, 0, 10, 20>>), Entry(5, <<0, 0, 10, 20>>)>>)>>}

\* data/raw: any of the book directories, each with any of its hOCR files.
RawDirPool ==
    {[b \in D |-> h[b]] :
        D \in SUBSET BookPool,
        h \in {h \in [BookPool -> UNION {HocrPool(b) : b \in BookPool}] :
                  \A b \in BookPool : h[b] \in HocrPool(b)}}

\* The output files an earlier run of the task of book b has left: those of
\* its first page.
LeftByEarlierRun(kind, b, pages) ==
    [f \in {OutputPath(kind, b, pages, 1, j) : j \in 1 .. Len(pages[1].entries)} |->
        LET j == CHOOSE j \in 1 .. Len(pages[1].entries) :
                     OutputPath(kind, b, pages, 1, j) = f
        IN  Cropped(b, pages, 1, j)]

\* main after the tasks are submitted; the output directory is empty or
\* holds what an earlier run of the task of book "c" wrote.
ExtractInit ==
    /\ DecompIdle
    /\ FillIdle
    /\ MainIdle
    /\ ConcatIdle
    /\ ComposeIdle
    /\ extractor \in {"numbers", "word"}
    /\ raw_dir \in RawDirPool
    /\ existing_files \in
           {<<>>} \cup {LeftByEarlierRun(extractor, b, raw_dir[b]) :
                           b \in DOMAIN raw_dir \cap {<<"c">>}}
    /\ output_files = existing_files
    /\ futures = [b \in DOMAIN raw_dir |-> Submitted]
    /\ results = <<>>
    /\ total = 0
    /\ extract_pc = "collect"

ExtractNext ==
    \/ \E b \in DOMAIN futures : TaskStart(b)
    \/ \E b \in DOMAIN futures : TaskPage(b)
    \/ \E b \in DOMAIN futures : TaskCheck(b)
    \/ \E b \in DOMAIN futures : TaskSave(b)
    \/ \E b \in DOMAIN futures : MainCollect(b)
    \/ MainTotal

SpecExtract == ExtractInit /\ [][ExtractNext]_vars

(***************************************************************************)
(* Properties of the parallel extraction.                                  *)
(***************************************************************************)
\* The entries <<p, j>> the task of book b gets to: those of the pages whose
\* JP2 exists, up to the first page whose JP2 cannot be opened.
EntriesReached(b) ==
    {pj \in UNION {{<<p, j>> : j \in 1 .. Len(raw_dir[b][p].entries)} :
                      p \in 1 .. Len(raw_dir[b])} :
        /\ raw_dir[b][pj[1]].jp2_exists
        /\ \A q \in 1 .. pj[1] : raw_dir[b][q].jp2_exists => raw_dir[b][q].jp2_opens}

\* The output paths of the task of book b.
PathsOf(b) == {OutputPath(extractor, b, raw_dir[b], pj[1], pj[2]) : pj \in EntriesReached(b)}

\* No file is written a second time.
NoFileWrittenTwice ==
    [][\A f \in DOMAIN output_files : output_files'[f] = output_files[f]]_vars

\* The output directory after the run holds the files that existed before
\* it and, under each other path of a task, the crop of that task.
SameFilesWhateverTheOrder ==
    extract_pc = "done" =>
        /\ DOMAIN output_files =
               DOMAIN existing_files \cup UNION {PathsOf(b) : b \in DOMAIN raw_dir}
        /\ \A f \in DOMAIN existing_files : output_files[f] = existing_files[f]
        /\ \A b \in DOMAIN raw_dir :
              \A pj \in EntriesReached(b) :
                  LET f == OutputPath(extractor, b, raw_dir[b], pj[1], pj[2])
                  IN  f \notin DOMAIN existing_files =>
                          output_files[f] = Cropped(b, raw_dir[b], pj[1], pj[2])

\* Every task is over and collected, whatever happened to the others, and a
\* task that raised counts 0: total is the number of files the tasks that
\* returned have written.
RaisedTaskCountsZero ==
    extract_pc = "done" =>
        /\ Len(results) = Cardinality(DOMAIN raw_dir)
        /\ \A b \in DOMAIN raw_dir : futures[b].pc \in {"returned", "raised"}
        /\ total = Cardinality(UNION {PathsOf(b) \ DOMAIN existing_files :
                                         b \in {c \in DOMAIN raw_dir :
                                                   futures[c].pc = "returned"}})

\* The claim as stated.
\* C21: no output file is written by two tasks, the files after the run are
\* the same whatever the interleaving and the order of completion, and a
\* task that raises does not stop the others and counts 0.
C21_AsStated ==
    /\ NoFileWrittenTwice
    /\ []SameFilesWhateverTheOrder
    /\ []RaisedTaskCountsZero

====
